---------------------------- MODULE Spec2Model ----------------------------
(***************************************************************************)
(* Model of src/ds210_final_project/src/main.rs: the job-category          *)
(* similarity graph (create_graph), the node statistics                    *)
(* (calculate_degrees, calculate_two_hop_neighbors), the record loader     *)
(* (load_data) and the distribution analysis (analyze_distribution,        *)
(* estimate_power_law_parameters, kolmogorov_smirnov_test).                *)
(*                                                                         *)
(* Conventions.                                                            *)
(*  - A String is a sequence of one-character strings.                     *)
(*  - A percentage (f64) is an integer number of tenths: 2.3 is 23.        *)
(*  - NodeIndex k of petgraph is k + 1 here (sequences start at 1).        *)
(*  - petgraph's Graph::new() makes a DIRECTED graph: neighbors(n) and     *)
(*    dijkstra(.., n, ..) follow only the edges whose source is n.         *)
(***************************************************************************)
EXTENDS Integers, Sequences, FiniteSets, TLC

VARIABLES
    pc,            \* position of the run
    file,          \* load_data: the lines of the input file
    index,         \* load_data: number of lines consumed by the loop
    data,          \* Vec<JobCategory>
    nodes,         \* graph: node weights, in NodeIndex order
    edges,         \* graph: edges, in EdgeIndex order
    node_indices,  \* HashMap<String, NodeIndex>
    degrees,       \* result of calculate_degrees
    two_hop,       \* result of calculate_two_hop_neighbors
    sample,        \* analyze_distribution: its `data` argument
    out,           \* analyze_distribution: the lines printed
    divs,          \* analyze_distribution: divisions by data.len() performed
    est            \* estimate_power_law_parameters: the pair returned

vars == <<pc, file, index, data, nodes, edges, node_indices, degrees, two_hop,
          sample, out, divs, est>>

(***************************************************************************)
(* Bounds and input domains                                                *)
(***************************************************************************)
MaxRecords == 3
MaxNodes == 4
MaxEdges == 3

Names == { <<"a">>, <<"b">>, <<"a", " ", "b">> }
Percentages == { 500, 550, 600, 650 }

JobCategory == [name : Names, male_percentage : Percentages]

RECURSIVE SeqsUpTo(_, _)
SeqsUpTo(S, n) ==
    IF n = 0 THEN { <<>> }
    ELSE LET shorter == SeqsUpTo(S, n - 1)
         IN  shorter \cup { Append(s, x) : s \in shorter, x \in S }

NoEstimate == <<>>

(***************************************************************************)
(* create_graph                                                            *)
(***************************************************************************)
Threshold == 100

Abs(x) == IF x < 0 THEN -x ELSE x

\* HashMap::insert: a later insert of the same key overwrites the value.
HashMapInsertKeepFirst(m, k, v) ==
    [x \in DOMAIN m \cup {k} |-> IF x \in DOMAIN m THEN m[x] ELSE v]

HashMapInsert(m, k, v) ==
    [x \in DOMAIN m \cup {k} |-> IF x = k THEN v ELSE m[x]]

\* graph.add_node((name, male_percentage)) for each job, in order.
AddNodes(d) ==
    [i \in 1..Len(d) |-> [name |-> d[i].name, pct |-> d[i].male_percentage]]

\* node_indices.insert(job.name.clone(), node) for each job, in order.
RECURSIVE InsertAll(_, _, _)
InsertAll(d, i, m) ==
    IF i > Len(d) THEN m
    ELSE InsertAll(d, i + 1, HashMapInsert(m, d[i].name, i))

Similar(similarity) == similarity < Threshold

\* graph.add_edge(a, b, w): always appends, whatever the graph holds.
AddEdgeTo(es, a, b, w) == Append(es, [source |-> a, target |-> b, weight |-> w])

\* The nested loop over i and over the records after i.
RECURSIVE EdgeLoop(_, _, _, _, _)
EdgeLoop(d, ni, i, j, es) ==
    IF i > Len(d) THEN es
    ELSE IF j > Len(d) THEN EdgeLoop(d, ni, i + 1, i + 2, es)
    ELSE LET similarity == Abs(d[i].male_percentage - d[j].male_percentage)
         IN  EdgeLoop(d, ni, i, j + 1,
                      IF Similar(similarity)
                      THEN AddEdgeTo(es, ni[d[i].name], ni[d[j].name], similarity)
                      ELSE es)

EmptyMap == [x \in {} |-> 0]

create_graph(d) ==
    LET ni == InsertAll(d, 1, EmptyMap)
    IN  [nodes |-> AddNodes(d),
         node_indices |-> ni,
         edges |-> EdgeLoop(d, ni, 1, 2, <<>>)]

(***************************************************************************)
(* calculate_degrees, calculate_two_hop_neighbors                          *)
(***************************************************************************)
NodeIds(ns) == 1..Len(ns)

\* graph.neighbors(n) of a directed graph: one item per edge leaving n.
Neighbors(es, n) == { k \in DOMAIN es : es[k].source = n }

calculate_degrees(ns, es) ==
    [n \in NodeIds(ns) |-> Cardinality(Neighbors(es, n))]

EdgeCost == 1

\* The nodes an edge leaving a node of S leads to.
Successors(es, S) == { es[k].target : k \in { e \in DOMAIN es : es[e].source \in S } }

\* dijkstra(graph, start, None, |_| 1): the map from each node reachable from
\* start to its distance; with unit costs, a breadth-first search.
RECURSIVE Layers(_, _, _, _)
Layers(es, frontier, dist, d) ==
    LET next == Successors(es, frontier) \ DOMAIN dist
    IN  IF next = {} THEN dist
        ELSE Layers(es, next, dist @@ [x \in next |-> d + EdgeCost], d + EdgeCost)

dijkstra(es, start) == Layers(es, {start}, (start :> 0), 0)

CountWithinTwo(distances) ==
    Cardinality({ x \in DOMAIN distances : distances[x] <= 2 })

\* distances.values().filter(|&&d| d == 2).count()
CountAtTwo(distances) ==
    Cardinality({ x \in DOMAIN distances : distances[x] = 2 })

calculate_two_hop_neighbors(ns, es) ==
    [n \in NodeIds(ns) |-> CountAtTwo(dijkstra(es, n))]

(***************************************************************************)
(* The graph pipeline of main: create_graph, then the two statistics       *)
(***************************************************************************)
IdleLoad == /\ file = <<>>
            /\ index = 0

IdleAnalysis == /\ sample = <<>>
                /\ out = <<>>
                /\ divs = 0
                /\ est = NoEstimate

EmptyGraph == /\ nodes = <<>>
              /\ edges = <<>>
              /\ node_indices = EmptyMap
              /\ degrees = <<>>
              /\ two_hop = <<>>

InitGraph ==
    /\ pc = "loaded"
    /\ data \in SeqsUpTo(JobCategory, MaxRecords)
    /\ EmptyGraph
    /\ IdleLoad
    /\ IdleAnalysis

CreateGraph ==
    /\ pc = "loaded"
    /\ LET g == create_graph(data)
       IN  /\ nodes' = g.nodes
           /\ edges' = g.edges
           /\ node_indices' = g.node_indices
    /\ pc' = "graph"
    /\ UNCHANGED <<file, index, data, degrees, two_hop, sample, out, divs, est>>

CalculateDegrees ==
    /\ pc = "graph"
    /\ degrees' = calculate_degrees(nodes, edges)
    /\ pc' = "degrees"
    /\ UNCHANGED <<file, index, data, nodes, edges, node_indices, two_hop,
                   sample, out, divs, est>>

CalculateTwoHopNeighbors ==
    /\ pc = "degrees"
    /\ two_hop' = calculate_two_hop_neighbors(nodes, edges)
    /\ pc' = "measured"
    /\ UNCHANGED <<file, index, data, nodes, edges, node_indices, degrees,
                   sample, out, divs, est>>

NextGraph == CreateGraph \/ CalculateDegrees \/ CalculateTwoHopNeighbors

SpecGraph == InitGraph /\ [][NextGraph]_vars

(***************************************************************************)
(* The graphs the unit tests build by hand: Graph::new(), add_node,        *)
(* add_edge, then the two statistics                                       *)
(***************************************************************************)
InitBuild ==
    /\ pc = "graph"
    /\ data = <<>>
    /\ EmptyGraph
    /\ IdleLoad
    /\ IdleAnalysis

AddNode ==
    /\ pc = "graph"
    /\ Len(nodes) < MaxNodes
    /\ nodes' = Append(nodes, [name |-> <<"n">>, pct |-> 0])
    /\ UNCHANGED <<pc, file, index, data, edges, node_indices, degrees, two_hop,
                   sample, out, divs, est>>

AddEdge ==
    /\ pc = "graph"
    /\ Len(edges) < MaxEdges
    /\ \E a \in NodeIds(nodes), b \in NodeIds(nodes) :
          edges' = AddEdgeTo(edges, a, b, 0)
    /\ UNCHANGED <<pc, file, index, data, nodes, node_indices, degrees, two_hop,
                   sample, out, divs, est>>

NextBuild == AddNode \/ AddEdge \/ CalculateDegrees \/ CalculateTwoHopNeighbors

SpecBuild == InitBuild /\ [][NextBuild]_vars

(***************************************************************************)
(* load_data                                                               *)
(*                                                                         *)
(* The file is taken as readable (File::open and every line's read         *)
(* succeed).  Characters are letters "a" "b", digits "1" "2", "." and the  *)
(* white space " " and tab; on this alphabet str::parse::<f64> accepts     *)
(* exactly digits with at most one ".", and at least one digit.  The lines *)
(* carry at most one fractional digit, so a value in tenths is exact.      *)
(***************************************************************************)
MaxLines == 3

Lines ==
    { <<>>,
      <<"a">>,
      <<"2">>,
      <<"a", "\t", "2", ".", "1">>,
      <<"a", " ", "b", "\t", "1">>,
      <<"a", " ", " ", "b", " ", "2">>,
      <<"a", "\t", "b">>,
      <<" ", "b", " ", "1", ".", " ">>,
      <<"1", " ", ".", "2">>,
      <<"a", " ", "1", ".", "2", ".">>,
      <<"b", " ", ".">> }

IsWhitespace(c) == c \in {" ", "\t"}

\* str::split_whitespace: the maximal runs of non-white-space characters.
RECURSIVE SplitLoop(_, _, _, _)
SplitLoop(line, i, cur, parts) ==
    LET flushed == IF cur = <<>> THEN parts ELSE Append(parts, cur)
    IN  IF i > Len(line) THEN flushed
        ELSE IF IsWhitespace(line[i]) THEN SplitLoop(line, i + 1, <<>>, flushed)
        ELSE SplitLoop(line, i + 1, Append(cur, line[i]), parts)

split_whitespace(line) == SplitLoop(line, 1, <<>>, <<>>)

\* parts[..parts.len()-1].join(" ")
RECURSIVE JoinLoop(_, _, _)
JoinLoop(parts, k, acc) ==
    IF k >= Len(parts) THEN acc
    ELSE JoinLoop(parts, k + 1,
                  IF k = 1 THEN parts[k] ELSE acc \o <<" ">> \o parts[k])

JoinFront(parts) == JoinLoop(parts, 1, <<>>)

DigitValue(c) == IF c = "1" THEN 1 ELSE IF c = "2" THEN 2 ELSE 0

IsDigit(c) == c \in {"1", "2"}

\* The integer a run of digits denotes.
RECURSIVE DigitsValue(_, _, _)
DigitsValue(tok, k, acc) ==
    IF k > Len(tok) \/ ~IsDigit(tok[k]) THEN acc
    ELSE DigitsValue(tok, k + 1, 10 * acc + DigitValue(tok[k]))

\* parts.last().unwrap().parse::<f64>(): Ok(value in tenths) or Err.
ParseF64(tok) ==
    LET dots   == { k \in 1..Len(tok) : tok[k] = "." }
        digits == { k \in 1..Len(tok) : IsDigit(tok[k]) }
        dot    == IF dots = {} THEN Len(tok) + 1 ELSE CHOOSE k \in dots : TRUE
        frac   == IF dot < Len(tok) THEN DigitValue(tok[dot + 1]) ELSE 0
    IN  IF /\ dots \cup digits = 1..Len(tok)
           /\ Cardinality(dots) <= 1
           /\ digits # {}
        THEN [ok |-> TRUE, value |-> 10 * DigitsValue(tok, 1, 0) + frac]
        ELSE [ok |-> FALSE, value |-> 0]

EnoughPartsFromOne(parts) == Len(parts) >= 1

\* if parts.len() >= 2
EnoughParts(parts) == Len(parts) >= 2

\* if index == 0 { continue; }
IsHeader(i) == i = 0

\* One pass of the loop body over the line at 0-based position i.
LoadLine(d, i, line) ==
    IF IsHeader(i) THEN d
    ELSE LET parts == split_whitespace(line)
         IN  IF EnoughParts(parts)
             THEN LET name   == JoinFront(parts)
                      parsed == ParseF64(parts[Len(parts)])
                  IN  IF parsed.ok
                      THEN Append(d, [name |-> name, male_percentage |-> parsed.value])
                      ELSE d
             ELSE d

InitLoad ==
    /\ pc = "loading"
    /\ file \in SeqsUpTo(Lines, MaxLines)
    /\ index = 0
    /\ data = <<>>
    /\ EmptyGraph
    /\ IdleAnalysis

ReadLine ==
    /\ pc = "loading"
    /\ index < Len(file)
    /\ data' = LoadLine(data, index, file[index + 1])
    /\ index' = index + 1
    /\ UNCHANGED <<pc, file, nodes, edges, node_indices, degrees, two_hop,
                   sample, out, divs, est>>

ReturnData ==
    /\ pc = "loading"
    /\ index = Len(file)
    /\ pc' = "loaded"
    /\ UNCHANGED <<file, index, data, nodes, edges, node_indices, degrees,
                   two_hop, sample, out, divs, est>>

NextLoad == ReadLine \/ ReturnData

SpecLoad == InitLoad /\ [][NextLoad]_vars

(***************************************************************************)
(* f64 arithmetic                                                          *)
(*                                                                         *)
(* An f64 is NaN, +inf, -inf or a finite value kept in thousandths         *)
(* (fixed point, truncated), so 0.693 is Fin(693).  The special values     *)
(* follow IEEE 754 as Rust's operators and f64 methods do.                 *)
(***************************************************************************)
Scale == 1000

Fin(v) == [k |-> "fin", v |-> v]
NaN == [k |-> "nan", v |-> 0]
PosInf == [k |-> "inf", v |-> 0]
NegInf == [k |-> "ninf", v |-> 0]

IsNaN(a) == a.k = "nan"
IsInfinite(a) == a.k \in {"inf", "ninf"}
IsFin(a) == a.k = "fin"

\* -1, 0 or 1; of a value that is not NaN.
Sign(a) ==
    IF a.k = "inf" THEN 1
    ELSE IF a.k = "ninf" THEN -1
    ELSE IF a.v > 0 THEN 1 ELSE IF a.v < 0 THEN -1 ELSE 0

Signed(s) == IF s > 0 THEN PosInf ELSE NegInf

\* Integer quotient truncated toward zero.
Quot(x, y) ==
    LET q == Abs(x) \div Abs(y)
    IN  IF (x < 0) = (y < 0) THEN q ELSE -q

\* x as f64
FromUsize(x) == Fin(x * Scale)

FNeg(a) ==
    IF a.k = "inf" THEN NegInf
    ELSE IF a.k = "ninf" THEN PosInf
    ELSE IF a.k = "nan" THEN NaN ELSE Fin(-a.v)

FAdd(a, b) ==
    IF IsNaN(a) \/ IsNaN(b) THEN NaN
    ELSE IF IsInfinite(a) /\ IsInfinite(b) THEN (IF a.k = b.k THEN a ELSE NaN)
    ELSE IF IsInfinite(a) THEN a
    ELSE IF IsInfinite(b) THEN b
    ELSE Fin(a.v + b.v)

FSub(a, b) == FAdd(a, FNeg(b))

FMul(a, b) ==
    IF IsNaN(a) \/ IsNaN(b) THEN NaN
    ELSE IF IsInfinite(a) \/ IsInfinite(b)
         THEN (IF Sign(a) * Sign(b) = 0 THEN NaN ELSE Signed(Sign(a) * Sign(b)))
    ELSE Fin(Quot(a.v * b.v, Scale))

\* Division; a finite zero divisor is +0.0.
FDiv(a, b) ==
    IF IsNaN(a) \/ IsNaN(b) THEN NaN
    ELSE IF IsInfinite(a) THEN (IF IsInfinite(b) THEN NaN
                                ELSE Signed(Sign(a) * (IF b.v < 0 THEN -1 ELSE 1)))
    ELSE IF IsInfinite(b) THEN Fin(0)
    ELSE IF b.v = 0 THEN (IF a.v = 0 THEN NaN ELSE Signed(Sign(a)))
    ELSE Fin(Quot(a.v * Scale, b.v))

\* -inf, the finite values, +inf, in order.
Class(a) == IF a.k = "ninf" THEN -1 ELSE IF a.k = "inf" THEN 1 ELSE 0

\* a < b
FLt(a, b) ==
    /\ ~IsNaN(a)
    /\ ~IsNaN(b)
    /\ IF IsFin(a) /\ IsFin(b) THEN a.v < b.v ELSE Class(a) < Class(b)

\* a >= b
FGe(a, b) == ~IsNaN(a) /\ ~IsNaN(b) /\ ~FLt(a, b)

\* f64::min and f64::max: a NaN operand is ignored.
FMin(a, b) == IF IsNaN(a) THEN b ELSE IF IsNaN(b) THEN a ELSE IF FLt(b, a) THEN b ELSE a

FMax(a, b) == IF IsNaN(a) THEN b ELSE IF IsNaN(b) THEN a ELSE IF FLt(a, b) THEN b ELSE a

FAbs(a) == IF IsNaN(a) THEN NaN ELSE IF IsInfinite(a) THEN PosInf ELSE Fin(Abs(a.v))

\* The integer square root.
RECURSIVE ISqrtLoop(_, _, _)
ISqrtLoop(x, lo, hi) ==
    IF lo >= hi THEN lo
    ELSE LET mid == (lo + hi + 1) \div 2
         IN  IF mid * mid <= x THEN ISqrtLoop(x, mid, hi) ELSE ISqrtLoop(x, lo, mid - 1)

FSqrt(a) ==
    IF IsNaN(a) \/ a.k = "ninf" THEN NaN
    ELSE IF a.k = "inf" THEN PosInf
    ELSE IF a.v < 0 THEN NaN
    ELSE Fin(ISqrtLoop(a.v * Scale, 0, a.v + Scale))

\* ln 2, in thousandths.
Ln2 == 693

\* ln of v thousandths, v in [1000, 2000): 2 atanh((v - 1)/(v + 1)).
LnNearOne(v) ==
    LET y  == ((v - Scale) * Scale) \div (v + Scale)
        y2 == (y * y) \div Scale
        y3 == (y2 * y) \div Scale
        y5 == (y3 * y2) \div Scale
        y7 == (y5 * y2) \div Scale
    IN  2 * (y + y3 \div 3 + y5 \div 5 + y7 \div 7)

\* ln of v thousandths, v > 0: halve or double into [1000, 2000).
RECURSIVE LnLoop(_, _)
LnLoop(v, acc) ==
    IF v >= 2 * Scale THEN LnLoop(v \div 2, acc + Ln2)
    ELSE IF v < Scale THEN LnLoop(v * 2, acc - Ln2)
    ELSE acc + LnNearOne(v)

\* f64::ln
FLn(a) ==
    IF IsNaN(a) \/ a.k = "ninf" THEN NaN
    ELSE IF a.k = "inf" THEN PosInf
    ELSE IF a.v < 0 THEN NaN
    ELSE IF a.v = 0 THEN NegInf
    ELSE Fin(LnLoop(a.v, 0))

\* e^r in thousandths, r thousandths in [0, 693): the Taylor series.
ExpSmall(r) ==
    LET r2 == (r * r) \div Scale
        r3 == (r2 * r) \div Scale
        r4 == (r3 * r) \div Scale
        r5 == (r4 * r) \div Scale
    IN  Scale + r + r2 \div 2 + r3 \div 6 + r4 \div 24 + r5 \div 120

RECURSIVE ExpLoop(_, _)
ExpLoop(v, factor) ==
    IF v >= Ln2 THEN ExpLoop(v - Ln2, 2 * factor) ELSE factor * ExpSmall(v)

\* f64::exp
FExp(a) ==
    IF IsNaN(a) THEN NaN
    ELSE IF a.k = "inf" THEN PosInf
    ELSE IF a.k = "ninf" THEN Fin(0)
    ELSE IF a.v >= 0 THEN Fin(ExpLoop(a.v, 1))
    ELSE Fin((Scale * Scale) \div ExpLoop(-a.v, 1))

\* f64::powf for a base that is NaN or >= 0 (the base is a quotient of
\* logarithms of counts): pow(x, 0) = 1 and pow(1, y) = 1 even for NaN.
FPowf(a, b) ==
    IF IsFin(b) /\ b.v = 0 THEN Fin(Scale)
    ELSE IF IsFin(a) /\ a.v = Scale THEN Fin(Scale)
    ELSE IF IsNaN(a) \/ IsNaN(b) THEN NaN
    ELSE IF IsFin(a) /\ a.v < 0 THEN NaN
    ELSE FExp(FMul(b, FLn(a)))

(***************************************************************************)
(* estimate_power_law_parameters, kolmogorov_smirnov_test                  *)
(***************************************************************************)
RECURSIVE FSum(_, _, _)
FSum(xs, k, acc) == IF k > Len(xs) THEN acc ELSE FSum(xs, k + 1, FAdd(acc, xs[k]))

\* log_data.iter().fold(f64::INFINITY, |a, &b| a.min(b))
RECURSIVE FoldMin(_, _, _)
FoldMin(xs, k, acc) == IF k > Len(xs) THEN acc ELSE FoldMin(xs, k + 1, FMin(acc, xs[k]))

DegenerateBelowOne(n) == n < 1

\* if n <= 1.0
Degenerate(n) == n <= 1

estimate_power_law_parameters(log_data) ==
    LET n == Len(log_data)
    IN  IF Degenerate(n) THEN [alpha |-> NaN, x_min |-> NaN]
        ELSE LET sum   == FSum(log_data, 1, Fin(0))
                 x_min == FoldMin(log_data, 1, PosInf)
                 alpha == FAdd(Fin(Scale),
                               FDiv(FromUsize(n),
                                    FSub(sum, FMul(FromUsize(n), FLn(x_min)))))
             IN  [alpha |-> alpha, x_min |-> x_min]

RECURSIVE FilterGe(_, _, _, _)
FilterGe(xs, k, bound, acc) ==
    IF k > Len(xs) THEN acc
    ELSE FilterGe(xs, k + 1, bound,
                  IF FGe(xs[k], bound) THEN Append(acc, xs[k]) ELSE acc)

\* One term of the map: |theoretical_cdf - empirical_cdf| at 0-based rank i.
KsTerm(x, i, m, alpha, x_min) ==
    LET theoretical_cdf ==
            FSub(Fin(Scale), FPowf(FDiv(x, x_min), FAdd(FNeg(alpha), Fin(Scale))))
        empirical_cdf == FDiv(FromUsize(i + 1), FromUsize(m))
    IN  FAbs(FSub(theoretical_cdf, empirical_cdf))

\* .fold(0.0, f64::max)
RECURSIVE KsFold(_, _, _, _, _)
KsFold(xs, k, alpha, x_min, acc) ==
    IF k > Len(xs) THEN acc
    ELSE KsFold(xs, k + 1, alpha, x_min,
                FMax(acc, KsTerm(xs[k], k - 1, Len(xs), alpha, x_min)))

kolmogorov_smirnov_test(log_data, alpha, x_min) ==
    KsFold(FilterGe(log_data, 1, x_min, <<>>), 1, alpha, x_min, Fin(0))

(***************************************************************************)
(* analyze_distribution                                                    *)
(***************************************************************************)
MaxSample == 3
MaxValue == 3

NoValue == [k |-> "none", v |-> 0]

Line(kind, value) == [kind |-> kind, value |-> value]

RECURSIVE USum(_, _, _)
USum(xs, k, acc) == IF k > Len(xs) THEN acc ELSE USum(xs, k + 1, acc + xs[k])

RECURSIVE SquaredDiffs(_, _, _, _)
SquaredDiffs(xs, k, mean, acc) ==
    IF k > Len(xs) THEN acc
    ELSE LET diff == FSub(FromUsize(xs[k]), mean)
         IN  SquaredDiffs(xs, k + 1, mean, FAdd(acc, FMul(diff, diff)))

UMin(xs) == CHOOSE x \in { xs[k] : k \in DOMAIN xs } : \A k \in DOMAIN xs : x <= xs[k]
UMax(xs) == CHOOSE x \in { xs[k] : k \in DOMAIN xs } : \A k \in DOMAIN xs : x >= xs[k]

\* data.iter().filter(|&&x| x > 0).map(|&x| (x as f64).ln()).collect()
RECURSIVE LogData(_, _, _)
LogData(xs, k, acc) ==
    IF k > Len(xs) THEN acc
    ELSE LogData(xs, k + 1,
                 IF xs[k] > 0 THEN Append(acc, FLn(FromUsize(xs[k]))) ELSE acc)

KsClose == 50
KsModerate == 100

\* The threshold ladder on the KS statistic.
Classification(ks_statistic) ==
    IF FLt(ks_statistic, Fin(KsClose)) THEN "closely follows"
    ELSE IF FLt(ks_statistic, Fin(KsModerate)) THEN "moderately follows"
    ELSE "does not strongly follow"

\* The lines printed once log_data is known.
PowerLawReport(log_data) ==
    IF Len(log_data) # 0
    THEN LET e  == estimate_power_law_parameters(log_data)
             ks == kolmogorov_smirnov_test(log_data, e.alpha, e.x_min)
         IN  << Line("Estimated Power Law Parameters", NoValue),
                Line("alpha", e.alpha),
                Line("x_min", FExp(e.x_min)),
                Line("Kolmogorov-Smirnov Statistic", ks),
                Line(Classification(ks), NoValue) >>
    ELSE << Line("Insufficient data for power law analysis", NoValue) >>

NeverEmpty(d) == FALSE

\* if data.is_empty()
DataIsEmpty(d) == Len(d) = 0

\* The lines printed and the number of divisions by data.len() performed.
analyze_distribution(d) ==
    IF DataIsEmpty(d)
    THEN [out |-> << Line("No data available", NoValue) >>, divs |-> 0]
    ELSE LET total == USum(d, 1, 0)
             mean  == FDiv(FromUsize(total), FromUsize(Len(d)))
         IN  IF IsNaN(mean) \/ IsInfinite(mean)
             THEN [out |-> << Line("Mean calculation resulted in NaN or infinite value",
                                   NoValue) >>,
                   divs |-> 1]
             ELSE LET variance == FDiv(SquaredDiffs(d, 1, mean, Fin(0)),
                                       FromUsize(Len(d)))
                      std_dev  == FSqrt(variance)
                  IN  [out |-> << Line("Analysis", NoValue),
                                  Line("Mean", mean),
                                  Line("Standard Deviation", std_dev),
                                  Line("Minimum", FromUsize(UMin(d))),
                                  Line("Maximum", FromUsize(UMax(d))) >>
                               \o PowerLawReport(LogData(d, 1, <<>>)),
                       divs |-> 2]

InitAnalysis ==
    /\ pc = "measured"
    /\ sample \in SeqsUpTo(0..MaxValue, MaxSample)
    /\ out = <<>>
    /\ divs = 0
    /\ est = NoEstimate
    /\ data = <<>>
    /\ EmptyGraph
    /\ IdleLoad

\* analyze_distribution(name, &sample)
AnalyzeDistribution ==
    /\ pc = "measured"
    /\ LET r == analyze_distribution(sample)
       IN  /\ out' = r.out
           /\ divs' = r.divs
    /\ pc' = "analyzed"
    /\ UNCHANGED <<file, index, data, nodes, edges, node_indices, degrees,
                   two_hop, sample, est>>

\* estimate_power_law_parameters called on the logarithms of the positive
\* values of the sample.
EstimatePowerLawParameters ==
    /\ pc = "measured"
    /\ est' = estimate_power_law_parameters(LogData(sample, 1, <<>>))
    /\ pc' = "estimated"
    /\ UNCHANGED <<file, index, data, nodes, edges, node_indices, degrees,
                   two_hop, sample, out, divs>>

NextAnalysis == AnalyzeDistribution \/ EstimatePowerLawParameters

SpecAnalysis == InitAnalysis /\ [][NextAnalysis]_vars

(***************************************************************************)
(* Vocabulary of the graph properties                                      *)
(***************************************************************************)
\* The nodes joined to n by an edge, whichever end n is.
Adjacent(es, n) ==
    { es[k].target : k \in { e \in DOMAIN es : es[e].source = n } }
    \cup { es[k].source : k \in { e \in DOMAIN es : es[e].target = n } }

\* m is at undirected shortest-path distance exactly 2 from n.
AtDistanceTwo(es, n, m) ==
    /\ m # n
    /\ m \notin Adjacent(es, n)
    /\ \E k \in Adjacent(es, n) : m \in Adjacent(es, k)

Isolated(es, n) == \A k \in DOMAIN es : es[k].source # n /\ es[k].target # n

EdgeBetween(es, a, b) ==
    \E k \in DOMAIN es : {es[k].source, es[k].target} = {a, b}

\* The index pairs create_graph's threshold selects, and their loop order.
SimilarPairs(d) ==
    { p \in (1..Len(d)) \X (1..Len(d)) :
        /\ p[1] < p[2]
        /\ Abs(d[p[1]].male_percentage - d[p[2]].male_percentage) < Threshold }

Before(p, q) == p[1] < q[1] \/ (p[1] = q[1] /\ p[2] < q[2])

Rank(d, p) == Cardinality({ q \in SimilarPairs(d) : Before(q, p) }) + 1

LastRecordNamed(d, nm) ==
    CHOOSE i \in 1..Len(d) :
        d[i].name = nm /\ \A j \in (i + 1)..Len(d) : d[j].name # nm

GraphBuilt == pc \in {"graph", "degrees", "measured"}

(***************************************************************************)
(* C1.  calculate_two_hop_neighbors gives, for every node n, the number of *)
(* other nodes at shortest-path distance exactly 2 from n with the edges   *)
(* read as undirected; the path A-B-C-D gives [1,1,1,1].                   *)
(* The code's graph is directed, so this is violated: A->B->C->D gives     *)
(* [1,1,0,0].                                                              *)
(***************************************************************************)
C1_TwoHopIsUndirectedDistanceTwo ==
    pc = "measured" =>
        \A n \in NodeIds(nodes) :
            two_hop[n] =
                Cardinality({ m \in NodeIds(nodes) : AtDistanceTwo(edges, n, m) })

(***************************************************************************)
(* C2.  calculate_degrees gives, for every node, the number of nodes       *)
(* adjacent to it by one edge, whichever endpoint the edge was added from. *)
(* The code counts only the edges leaving the node, so this is violated.   *)
(***************************************************************************)
C2_DegreeCountsBothEndpoints ==
    pc \in {"degrees", "measured"} =>
        \A n \in NodeIds(nodes) :
            degrees[n] = Cardinality(Adjacent(edges, n))

(***************************************************************************)
(* C3.  For any record list, duplicate names included, create_graph joins  *)
(* the nodes of two distinct records i, j iff |p_i - p_j| < 10.0, and the  *)
(* graph has no self-loop and no two edges joining the same pair of nodes. *)
(* Violated when two records share a name.                                 *)
(***************************************************************************)
C3_ThresholdGraphIsSimple ==
    GraphBuilt =>
        /\ \A i \in 1..Len(data), j \in 1..Len(data) :
              i # j =>
                (EdgeBetween(edges, i, j) <=>
                   Abs(data[i].male_percentage - data[j].male_percentage) < Threshold)
        /\ \A k \in DOMAIN edges : edges[k].source # edges[k].target
        /\ \A k \in DOMAIN edges, l \in DOMAIN edges :
              k # l => {edges[k].source, edges[k].target}
                         # {edges[l].source, edges[l].target}

(***************************************************************************)
(* C4.  For n records create_graph returns n nodes in input order, a       *)
(* name-to-node map with one entry per record, and as many edges as there  *)
(* are index pairs i < j with |p_i - p_j| < 10.0.                          *)
(* Violated when two records share a name: the map has fewer entries.      *)
(***************************************************************************)
C4_NodesMapEntriesEdgesCounted ==
    GraphBuilt =>
        /\ Len(nodes) = Len(data)
        /\ \A i \in 1..Len(data) :
              nodes[i] = [name |-> data[i].name, pct |-> data[i].male_percentage]
        /\ Cardinality(DOMAIN node_indices) = Len(data)
        /\ Len(edges) = Cardinality(SimilarPairs(data))

(***************************************************************************)
(* C8.  For every graph, a node that is an endpoint of no edge has degree  *)
(* 0 and two-hop count 0.                                                  *)
(***************************************************************************)
C8_IsolatedNodeCountsZero ==
    pc = "measured" =>
        \A n \in NodeIds(nodes) :
            Isolated(edges, n) => degrees[n] = 0 /\ two_hop[n] = 0

C8_Witness ==
    /\ pc = "measured"
    /\ \E n \in NodeIds(nodes) : Isolated(edges, n)
    /\ \E n \in NodeIds(nodes) : degrees[n] > 0 /\ two_hop[n] > 0

(***************************************************************************)
(* C10.  When records share a name, create_graph still adds a node for     *)
(* each record, but the edge made for a pair of records is attached to the *)
(* node of the last record bearing each name, so the node of an earlier    *)
(* record of a shared name is an endpoint of no edge.                      *)
(***************************************************************************)
C10_SharedNameOrphansEarlierNode ==
    GraphBuilt =>
        /\ Len(nodes) = Len(data)
        /\ Len(edges) = Cardinality(SimilarPairs(data))
        /\ \A p \in SimilarPairs(data) :
              /\ edges[Rank(data, p)].source = LastRecordNamed(data, data[p[1]].name)
              /\ edges[Rank(data, p)].target = LastRecordNamed(data, data[p[2]].name)
        /\ \A i \in 1..Len(data), j \in 1..Len(data) :
              (i < j /\ data[i].name = data[j].name) => Isolated(edges, i)

C10_Witness ==
    /\ GraphBuilt
    /\ \E i \in 1..Len(data), j \in 1..Len(data) :
          /\ i < j
          /\ data[i].name = data[j].name
          /\ \E p \in SimilarPairs(data) : i \in {p[1], p[2]} /\ j \notin {p[1], p[2]}
          /\ ~Isolated(edges, j)

(***************************************************************************)
(* C7.  load_data returns, in file order, exactly one record for each      *)
(* non-header line that has at least 2 white-space-separated tokens and    *)
(* whose last token parses as a float, its name the preceding tokens       *)
(* joined by single spaces and its percentage the parsed token; the first  *)
(* line, lines of fewer than 2 tokens and lines whose last token does not  *)
(* parse give no record.                                                   *)
(***************************************************************************)
Tokens(line) == split_whitespace(line)

Qualifies(line) ==
    /\ Len(Tokens(line)) >= 2
    /\ ParseF64(Tokens(line)[Len(Tokens(line))]).ok

RECURSIVE SpaceJoined(_)
SpaceJoined(toks) ==
    IF Len(toks) = 0 THEN <<>>
    ELSE IF Len(toks) = 1 THEN toks[1]
    ELSE toks[1] \o <<" ">> \o SpaceJoined(Tail(toks))

RecordOf(line) ==
    LET toks == Tokens(line)
    IN  [name |-> SpaceJoined(SubSeq(toks, 1, Len(toks) - 1)),
         male_percentage |-> ParseF64(toks[Len(toks)]).value]

\* The records of the lines k.. of f, in order.
RECURSIVE RecordsFrom(_, _)
RecordsFrom(f, k) ==
    IF k > Len(f) THEN <<>>
    ELSE (IF Qualifies(f[k]) THEN <<RecordOf(f[k])>> ELSE <<>>)
         \o RecordsFrom(f, k + 1)

C7_LoadDataKeepsQualifyingLines ==
    pc = "loaded" => data = RecordsFrom(file, 2)

C7_Witness ==
    /\ pc = "loaded"
    /\ Len(file) = 3
    /\ Qualifies(file[1])
    /\ Qualifies(file[2])
    /\ ~Qualifies(file[3])
    /\ Len(Tokens(file[2])) >= 3
    /\ Len(data) = 1

(***************************************************************************)
(* Vocabulary of the analysis properties                                   *)
(***************************************************************************)
Logs(xs) == LogData(xs, 1, <<>>)

PositiveCount(xs) == Cardinality({ k \in DOMAIN xs : xs[k] > 0 })

Printed(kind) == \E k \in DOMAIN out : out[k].kind = kind

FitLines ==
    { "Kolmogorov-Smirnov Statistic", "closely follows", "moderately follows",
      "does not strongly follow" }

(***************************************************************************)
(* C5.  estimate_power_law_parameters on a log-data sequence of length 0   *)
(* or 1 returns NaN for both alpha and x_min; on a sequence of length >= 2 *)
(* it returns x_min equal to the minimum element of the sequence.          *)
(***************************************************************************)
C5_DegenerateIsNaNElseMinimum ==
    pc = "estimated" =>
        LET log_data == Logs(sample)
        IN  /\ Len(log_data) <= 1 => est.alpha = NaN /\ est.x_min = NaN
            /\ Len(log_data) >= 2 =>
                  /\ \E k \in DOMAIN log_data : est.x_min = log_data[k]
                  /\ \A k \in DOMAIN log_data :
                        IsFin(log_data[k]) /\ est.x_min.v <= log_data[k].v

C5_Witness ==
    /\ pc = "estimated"
    /\ Len(Logs(sample)) = 1
    /\ Len(sample) > 1
    /\ IsNaN(est.alpha)
    /\ IsNaN(est.x_min)

(***************************************************************************)
(* C6.  analyze_distribution on an empty sample prints only the "no data"  *)
(* line and returns: no mean, standard deviation, minimum, maximum,        *)
(* power-law parameter, KS statistic or classification line, and no        *)
(* division by the sample length.                                          *)
(***************************************************************************)
C6_EmptySampleOnlyNoData ==
    pc = "analyzed" /\ sample = <<>> =>
        /\ out = << Line("No data available", NoValue) >>
        /\ divs = 0

C6_Witness ==
    /\ pc = "analyzed"
    /\ sample = <<>>
    /\ Printed("No data available")

(***************************************************************************)
(* C9.  analyze_distribution returns early at each of its three            *)
(* precondition failures (empty sample, no positive value, exactly one     *)
(* positive value so that alpha and x_min are undefined): in each of them  *)
(* no KS statistic and no fit classification is printed.                   *)
(* Violated for exactly one positive value: the code goes on with NaN      *)
(* parameters, prints a KS statistic of 0 and "closely follows".           *)
(***************************************************************************)
C9_NoFitReportOnPreconditionFailure ==
    pc = "analyzed" /\ PositiveCount(sample) <= 1 =>
        \A kind \in FitLines : ~Printed(kind)

=============================================================================
